---- MODULE Spec2Model ----
(***************************************************************************)
(* Model of lfl_data_upload/main.py: the command line entry point main and *)
(* the pipeline process (folder selection, file location, spreadsheet      *)
(* extraction, row filter / int16 conversion / date stamp / sort, CSV      *)
(* write).                                                                 *)
(*                                                                         *)
(* Text is modelled as a sequence of one-character strings so that the     *)
(* code's character level operations (strptime's pattern, str.isdigit,     *)
(* int(), the code point order used by max) can be computed as the code    *)
(* computes them.                                                          *)
(***************************************************************************)
EXTENDS Integers, Sequences, FiniteSets, TLC

(***************************************************************************)
(* Bounds of the model.                                                    *)
(***************************************************************************)
\* longest listing of the source folder
MaxEntries == 2
\* longest listing of the selected dated folder
MaxFiles == 1
\* most rows of the spreadsheet
MaxRows == 2

(***************************************************************************)
(* Characters and their code points (Python compares str by code point).  *)
(* "^2" stands for U+00B2 SUPERSCRIPT TWO: str.isdigit() is True for it,   *)
(* int() rejects it.                                                       *)
(***************************************************************************)
DecimalDigits == {"0", "1", "2", "3", "4", "5", "6", "7", "8", "9"}

NonZeroDigits == DecimalDigits \ {"0"}

Ord(c) ==
    CASE c = " " -> 32
      [] c = "-" -> 45
      [] c = "0" -> 48 [] c = "1" -> 49 [] c = "2" -> 50 [] c = "3" -> 51
      [] c = "4" -> 52 [] c = "5" -> 53 [] c = "6" -> 54 [] c = "7" -> 55
      [] c = "8" -> 56 [] c = "9" -> 57
      [] c = "N" -> 78
      [] c = "a" -> 97 [] c = "b" -> 98 [] c = "c" -> 99
      [] c = "e" -> 101
      [] c = "n" -> 110 [] c = "o" -> 111
      [] c = "s" -> 115 [] c = "t" -> 116
      [] c = "x" -> 120
      [] c = "^2" -> 178

DigitVal(c) == Ord(c) - 48

\* Python's str.__lt__: code point order, a proper prefix is smaller.
RECURSIVE StrLess(_, _)
StrLess(a, b) ==
    IF b = <<>> THEN FALSE
    ELSE IF a = <<>> THEN TRUE
    ELSE IF Ord(Head(a)) # Ord(Head(b)) THEN Ord(Head(a)) < Ord(Head(b))
    ELSE StrLess(Tail(a), Tail(b))

(***************************************************************************)
(* datetime.strptime(date, "%Y-%m-%d").  The format compiles to the        *)
(* pattern                                                                 *)
(*   (\d\d\d\d)-(1[0-2]|0[1-9]|[1-9])-(3[01]|[12]\d|0[1-9]|[1-9]| [1-9])  *)
(* which is matched against a prefix of the text; text left over after the *)
(* match ("unconverted data remains"), and a day the month does not have,  *)
(* are ValueErrors.                                                        *)
(***************************************************************************)
YearMatches(s) ==
    /\ Len(s) >= 5
    /\ \A i \in 1..4 : s[i] \in DecimalDigits
    /\ s[5] = "-"

\* Length of the month group at position 6.  When the two-digit alternative
\* matches and the "-" after it does not, the one-digit alternative cannot
\* help (it would need "-" where a digit stands), so there is no backtracking
\* to model.
MonthLen(s) ==
    IF /\ Len(s) >= 7
       /\ \/ s[6] = "1" /\ s[7] \in {"0", "1", "2"}
          \/ s[6] = "0" /\ s[7] \in NonZeroDigits
    THEN 2
    ELSE IF Len(s) >= 6 /\ s[6] \in NonZeroDigits THEN 1
    ELSE 0

\* Length of the day group starting at position p: the first alternative
\* that matches, in the pattern's order.
DayLen(s, p) ==
    IF /\ Len(s) >= p + 1
       /\ \/ s[p] = "3" /\ s[p + 1] \in {"0", "1"}
          \/ s[p] \in {"1", "2"} /\ s[p + 1] \in DecimalDigits
          \/ s[p] = "0" /\ s[p + 1] \in NonZeroDigits
    THEN 2
    ELSE IF Len(s) >= p /\ s[p] \in NonZeroDigits THEN 1
    ELSE IF Len(s) >= p + 1 /\ s[p] = " " /\ s[p + 1] \in NonZeroDigits THEN 2
    ELSE 0

\* int() of the characters s[from..to] (a leading blank is skipped).
RECURSIVE FieldValue(_, _, _)
FieldValue(s, from, to) ==
    IF from > to THEN 0
    ELSE IF s[to] = " " THEN 0
    ELSE FieldValue(s, from, to - 1) * 10 + DigitVal(s[to])

IsLeap(y) == (y % 4 = 0 /\ y % 100 # 0) \/ y % 400 = 0

DaysInMonth(y, m) ==
    IF m = 2 THEN (IF IsLeap(y) THEN 29 ELSE 28)
    ELSE IF m \in {4, 6, 9, 11} THEN 30
    ELSE 31

\* The [year, month, day] strptime builds, or <<>> when it raises ValueError.
Strptime(s) ==
    IF ~YearMatches(s) THEN <<>>
    ELSE LET ml == MonthLen(s) IN
      IF ml = 0 \/ Len(s) < 6 + ml \/ s[6 + ml] # "-" THEN <<>>
      ELSE LET p  == 7 + ml
               dl == DayLen(s, p) IN
        IF dl = 0 \/ p + dl - 1 # Len(s) THEN <<>>
        ELSE LET y == FieldValue(s, 1, 4)
                 m == FieldValue(s, 6, 5 + ml)
                 d == FieldValue(s, p, p + dl - 1) IN
          IF y < 1 \/ d > DaysInMonth(y, m) THEN <<>>
          ELSE <<y, m, d>>

\* _is_date: True when strptime returns, False (and a warning) on ValueError.
IsDate(date) == Strptime(date) # <<>>

\* max() over an iterable: the first item, replaced by each later item that
\* compares greater.
RECURSIVE PyMaxFold(_, _)
PyMaxFold(best, rest) ==
    IF rest = <<>> THEN best
    ELSE PyMaxFold(IF StrLess(best, Head(rest)) THEN Head(rest) ELSE best,
                   Tail(rest))

PyMax(names) == PyMaxFold(Head(names), Tail(names))

\* A plausible slip: max(..., default="") instead of letting max() raise.
LatestFolderDefault(listing) ==
    LET names == SelectSeq(listing, IsDate) IN
    IF names = <<>> THEN [ok |-> TRUE, name |-> <<>>]
    ELSE [ok |-> TRUE, name |-> PyMax(names)]

\* max(path.name for path in source_folder.glob("*") if is_date(path.name));
\* ok is FALSE when max() raises ValueError on the empty generator.
LatestFolder(listing) ==
    LET names == SelectSeq(listing, IsDate) IN
    IF names = <<>> THEN [ok |-> FALSE, name |-> <<>>]
    ELSE [ok |-> TRUE, name |-> PyMax(names)]

(***************************************************************************)
(* The row filter and transform.                                           *)
(***************************************************************************)
\* pandas' missing value: what dtype="string" gives an empty cell.
NA == <<"<NA>">>

NAStatus == "<NA>"

\* str.isdigit() of one text cell: "T", "F", or "NA" for a missing cell.
\* Every character must be a digit (U+00B2 counts) and there must be one.
IsDigit(text) ==
    IF text = NA THEN "NA"
    ELSE IF text # <<>> /\ \A i \in 1..Len(text) : text[i] \in DecimalDigits \cup {"^2"}
    THEN "T"
    ELSE "F"

\* .isin(["LFL", "Non-LFL"]): a plain bool, False for a missing cell.
IsIn(status) == status \in {"LFL", "Non-LFL"}

\* A plausible slip: the status test left out of the mask.
KeepDigitsOnly(r) == IsDigit(r.center_id) = "T"

\* excel_df[mask]: mask = isdigit & isin in Kleene logic (NA & False is
\* False, NA & True is NA); boolean indexing treats NA as False.
Keep(r) ==
    LET d == IsDigit(r.center_id)
        mask == IF ~IsIn(r.lfl_status) THEN "F" ELSE d
    IN mask = "T"

\* int() accepts the text: every character is a decimal digit.
IntParses(text) == \A i \in 1..Len(text) : text[i] \in DecimalDigits

\* int(text) for a text of decimal digits.
RECURSIVE ParseInt(_)
ParseInt(text) ==
    IF text = <<>> THEN 0
    ELSE ParseInt(SubSeq(text, 1, Len(text) - 1)) * 10 + DigitVal(text[Len(text)])

Int16Min == -32768

Int16Max == 32767

InInt16(v) == Int16Min <= v /\ v <= Int16Max

\* Narrowing a C long to int16 keeps the low 16 bits.
WrapInt16(v) == ((v - Int16Min) % 65536) + Int16Min

\* The code does not test the range itself: what astype("int16") does with
\* a value outside it is left to the array library, which either narrows
\* the value to its low 16 bits or raises OverflowError.
AstypeModes == {"wrap", "raise"}

\* A plausible slip: the date is parsed and formatted again before it is
\* stamped on the rows.
RECURSIVE Digits(_, _)
Digits(v, width) ==
    IF width = 0 THEN <<>>
    ELSE Append(Digits(v \div 10, width - 1),
                CHOOSE c \in DecimalDigits : DigitVal(c) = v % 10)

DateColumnReformatted(date) ==
    LET ymd == Strptime(date) IN
    Digits(ymd[1], 4) \o <<"-">> \o Digits(ymd[2], 2) \o <<"-">> \o Digits(ymd[3], 2)

\* .assign(Date=latest_folder): the selected name, as it is.
DateColumn(date) == date

\* .assign(center_id=..., Date=latest_folder) on one kept row, the
\* identifier already converted to v.
Assign(r, v, date) ==
    [index |-> r.index, center_id |-> v, lfl_status |-> r.lfl_status,
     Date |-> DateColumn(date)]

RowOrders(n) ==
    {p \in [1..n -> 1..n] : \A i, j \in 1..n : i # j => p[i] # p[j]}

\* A plausible slip: the sort left out.
SortValuesNone(df) == {df}

\* .sort_values(["center_id"]) with the default kind="quicksort", which
\* pandas documents as not stable: the result is ascending in center_id and
\* the order among rows of equal center_id is whatever the array library's
\* quicksort leaves, so every ascending arrangement is a possible result.
SortValues(df) ==
    {[i \in 1..Len(df) |-> df[p[i]]] : p \in
        {q \in RowOrders(Len(df)) :
            \A i \in 1..Len(df) - 1 : df[q[i]].center_id <= df[q[i + 1]].center_id}}

(***************************************************************************)
(* The inputs: what the source folder, the dated folder, the spreadsheet   *)
(* and the destination hold when main is called.                           *)
(***************************************************************************)
D20230101 == <<"2", "0", "2", "3", "-", "0", "1", "-", "0", "1">>

D20230615 == <<"2", "0", "2", "3", "-", "0", "6", "-", "1", "5">>

D20231201 == <<"2", "0", "2", "3", "-", "1", "2", "-", "0", "1">>

\* "2023-6-15": a date, the month not zero-padded
DUnpadded == <<"2", "0", "2", "3", "-", "6", "-", "1", "5">>

\* "2023-02-30": the form of a date, not a day of the calendar
DImpossible == <<"2", "0", "2", "3", "-", "0", "2", "-", "3", "0">>

\* "2023-06-15x"
DTrailing == <<"2", "0", "2", "3", "-", "0", "6", "-", "1", "5", "x">>

Notes == <<"n", "o", "t", "e", "s">>

NotesCapital == <<"N", "o", "t", "e", "s">>

NamePool ==
    {D20230101, D20230615, D20231201, DUnpadded, DImpossible, DTrailing,
     Notes, NotesCapital}

\* The listings of at most n entries: a directory holds a name once, in any
\* order.
Listings(pool, n) ==
    UNION {{l \in [1..k -> pool] : \A i, j \in 1..k : i # j => l[i] # l[j]} :
           k \in 0..n}

\* The files a dated folder may hold, by what pd.read_excel makes of them.
FilePool ==
    {[name |-> "book.xlsx", kind |-> "spreadsheet"],
     [name |-> "notes.txt", kind |-> "text"],
     [name |-> "cut.xlsx", kind |-> "corrupt"],
     [name |-> "other.xlsx", kind |-> "nocolumn"]}

GoodFile == [name |-> "book.xlsx", kind |-> "spreadsheet"]

T7 == <<"7">>

T007 == <<"0", "0", "7">>

T12 == <<"1", "2">>

T40000 == <<"4", "0", "0", "0", "0">>

TAbc == <<"a", "b", "c">>

TMinus5 == <<"-", "5">>

TSup2 == <<"^2">>

IdPool == {T7, T007, T12, T40000, TAbc, TMinus5, TSup2, <<>>, NA}

RowPool ==
    {[center_id |-> c, lfl_status |-> st] : c \in IdPool, st \in {"LFL", "Non-LFL"}}
    \cup {[center_id |-> T7, lfl_status |-> st] :
            st \in {"Unknown", "lfl", " LFL", NAStatus}}

Tables(n) == UNION {[1..k -> RowPool] : k \in 0..n}

T3 == <<"3">>

\* The table and the source folder of the worked scenario: rows 12/LFL,
\* 7/Non-LFL, abc/LFL, 3/Unknown under 2023-01-01, 2023-06-15, notes.
ScenarioTable ==
    <<[center_id |-> T12, lfl_status |-> "LFL"],
      [center_id |-> T7, lfl_status |-> "Non-LFL"],
      [center_id |-> TAbc, lfl_status |-> "LFL"],
      [center_id |-> T3, lfl_status |-> "Unknown"]>>

ScenarioEntries == <<D20230101, D20230615, Notes>>

NoPath == [folder |-> <<>>, name |-> ""]

NoFault == [type |-> "none", msg |-> NoPath, cause |-> "none"]

Fault(type) == [type |-> type, msg |-> NoPath, cause |-> "none"]

VARIABLES
    entries,            \* source_folder.glob("*"): the entry names, in listing order
    folderFiles,        \* (source_folder / latest_folder).glob("*")
    table,              \* the rows of the spreadsheet, both columns as text
    destWritable,       \* whether destination_file can be opened for writing
    dest,               \* the destination file
    pc,                 \* the statement of process / main to run next
    latest_folder,
    input_file_name,
    excel_df,
    reads,              \* calls of pd.read_excel so far
    fault,              \* the exception process raised
    exit                \* what main did: "running", "return 0", "return 1", "uncaught"

vars ==
    <<entries, folderFiles, table, destWritable, dest, pc, latest_folder,
      input_file_name, excel_df, reads, fault, exit>>

inputs == <<entries, folderFiles, table, destWritable>>

InitState ==
    /\ dest \in {[state |-> "absent", rows |-> <<>>], [state |-> "old", rows |-> <<>>]}
    /\ pc = "select"
    /\ latest_folder = <<>>
    /\ input_file_name = NoPath
    /\ excel_df = <<>>
    /\ reads = 0
    /\ fault = NoFault
    /\ exit = "running"

\* Every listing of the source folder, over an empty or a good dated folder.
InitFolders ==
    /\ entries \in Listings(NamePool, MaxEntries)
    /\ folderFiles \in {<<>>, <<GoodFile>>}
    /\ table = ScenarioTable
    /\ destWritable \in BOOLEAN

\* Every listing of the dated folder.
InitFiles ==
    /\ entries \in {ScenarioEntries, <<DUnpadded>>}
    /\ folderFiles \in Listings(FilePool, MaxFiles)
    /\ table \in {ScenarioTable, <<>>}
    /\ destWritable \in BOOLEAN

\* Every table.
InitTables ==
    /\ entries \in {ScenarioEntries, <<D20231201, DUnpadded>>}
    /\ folderFiles = <<GoodFile>>
    /\ table \in Tables(MaxRows)
    /\ destWritable \in BOOLEAN

Init == InitState /\ (InitFolders \/ InitFiles \/ InitTables)

(***************************************************************************)
(* process, statement by statement.                                        *)
(***************************************************************************)
Raise(f) ==
    /\ fault' = f
    /\ pc' = "raised"

\* lines 56-60
SelectFolder ==
    /\ pc = "select"
    /\ LET r == LatestFolder(entries) IN
        IF r.ok
        THEN /\ latest_folder' = r.name
             /\ pc' = "locate"
             /\ fault' = fault
        ELSE /\ Raise(Fault("ValueError"))
             /\ latest_folder' = latest_folder
    /\ UNCHANGED <<inputs, dest, input_file_name, excel_df, reads, exit>>

\* line 61: list(...)[0]
LocateFile ==
    /\ pc = "locate"
    /\ IF folderFiles # <<>>
       THEN /\ input_file_name' = [folder |-> latest_folder, name |-> folderFiles[1].name]
            /\ pc' = "read"
            /\ fault' = fault
       ELSE /\ Raise(Fault("IndexError"))
            /\ input_file_name' = input_file_name
    /\ UNCHANGED <<inputs, dest, latest_folder, excel_df, reads, exit>>

\* pd.read_excel(input_file_name, usecols=[...], dtype="string"): the table,
\* or the exception it raises.  A file that is no spreadsheet at all, and a
\* spreadsheet without one of the two columns, are ValueErrors; a damaged
\* workbook is reported by whichever layer meets the damage, as a ValueError
\* or as that layer's own exception (zipfile.BadZipFile for a cut-off .xlsx).
ReadExcelOutcomes(kind) ==
    CASE kind = "spreadsheet" -> {"table"}
      [] kind = "text" -> {"ValueError"}
      [] kind = "nocolumn" -> {"ValueError"}
      [] kind = "corrupt" -> {"ValueError", "BadZipFile"}

\* lines 69-71: raise DataProcessingError(f"{input_file_name} is not an
\* excel file") from exc
DataProcessingError(path, exc) ==
    [type |-> "DataProcessingError", msg |-> path, cause |-> exc]

\* The frame pandas builds: the rows in order, the default index 0, 1, ...
\* (kept here as 1, 2, ...), the columns renamed.
Frame(t) ==
    [i \in 1..Len(t) |->
        [index |-> i, center_id |-> t[i].center_id, lfl_status |-> t[i].lfl_status]]

\* lines 63-71
ReadExcel ==
    /\ pc = "read"
    /\ reads' = reads + 1
    /\ \E outcome \in ReadExcelOutcomes(folderFiles[1].kind) :
        IF outcome = "table"
        THEN /\ excel_df' = Frame(table)
             /\ pc' = "transform"
             /\ fault' = fault
        ELSE IF outcome = "ValueError"
        THEN /\ Raise(DataProcessingError(input_file_name, outcome))
             /\ excel_df' = excel_df
        ELSE /\ Raise(Fault(outcome))
             /\ excel_df' = excel_df
    /\ UNCHANGED <<inputs, dest, latest_folder, input_file_name, exit>>

\* lines 73-83: the mask, the conversion, the date, the sort
Transform ==
    /\ pc = "transform"
    /\ LET kept == SelectSeq(excel_df, Keep) IN
        IF \E i \in 1..Len(kept) : ~IntParses(kept[i].center_id)
        THEN \* int() of a text str.isdigit() accepts and int() does not
             /\ Raise(Fault("ValueError"))
             /\ excel_df' = excel_df
        ELSE \E mode \in AstypeModes :
             LET value(i) == ParseInt(kept[i].center_id)
                 over == \E i \in 1..Len(kept) : ~InInt16(value(i))
             IN IF over /\ mode = "raise"
                THEN /\ Raise(Fault("OverflowError"))
                     /\ excel_df' = excel_df
                ELSE /\ excel_df' \in SortValues(
                            [i \in 1..Len(kept) |->
                                Assign(kept[i], WrapInt16(value(i)), latest_folder)])
                     /\ pc' = "write"
                     /\ fault' = fault
    /\ UNCHANGED <<inputs, dest, latest_folder, input_file_name, reads, exit>>

\* to_csv(destination_file, index=False): the three columns, without the index
Csv(df) ==
    [i \in 1..Len(df) |->
        [center_id |-> df[i].center_id, lfl_status |-> df[i].lfl_status,
         Date |-> df[i].Date]]

\* line 85
ToCsv ==
    /\ pc = "write"
    /\ IF destWritable
       THEN /\ dest' = [state |-> "written", rows |-> Csv(excel_df)]
            /\ pc' = "returned"
            /\ fault' = fault
       ELSE /\ Raise(Fault("OSError"))
            /\ dest' = dest
    /\ UNCHANGED <<inputs, latest_folder, input_file_name, excel_df, reads, exit>>

(***************************************************************************)
(* main: the try / except around process.                                  *)
(***************************************************************************)
\* A plausible slip: except Exception instead of except DataProcessingError.
ExitOfAnyException(returned, f) ==
    IF returned THEN "return 0" ELSE "return 1"

\* lines 96-102
ExitOf(returned, f) ==
    IF returned THEN "return 0"
    ELSE IF f.type = "DataProcessingError" THEN "return 1"
    ELSE "uncaught"

MainExit ==
    /\ pc \in {"returned", "raised"}
    /\ exit' = ExitOf(pc = "returned", fault)
    /\ pc' = "exited"
    /\ UNCHANGED <<inputs, dest, latest_folder, input_file_name, excel_df, reads, fault>>

Next ==
    \/ SelectFolder
    \/ LocateFile
    \/ ReadExcel
    \/ Transform
    \/ ToCsv
    \/ MainExit

Spec == Init /\ [][Next]_vars

(***************************************************************************)
(* The properties.                                                         *)
(***************************************************************************)
Written == dest.state = "written"

\* The identifier text is one or more decimal digit characters and the
\* status text is one of the two accepted literals.
AcceptedRow(r) ==
    /\ r.center_id # NA
    /\ r.center_id # <<>>
    /\ \A i \in 1..Len(r.center_id) : r.center_id[i] \in DecimalDigits
    /\ r.lfl_status = "LFL" \/ r.lfl_status = "Non-LFL"

\* A name in the exact zero-padded form dddd-dd-dd.
ExactForm(s) ==
    /\ Len(s) = 10
    /\ \A i \in {1, 2, 3, 4, 6, 7, 9, 10} : s[i] \in DecimalDigits
    /\ s[5] = "-"
    /\ s[8] = "-"

\* A valid YYYY-MM-DD name: the exact form, naming a day of the calendar.
ValidDateName(s) ==
    /\ ExactForm(s)
    /\ LET y == FieldValue(s, 1, 4)
           m == FieldValue(s, 6, 7)
           d == FieldValue(s, 9, 10)
       IN y >= 1 /\ m \in 1..12 /\ d \in 1..DaysInMonth(y, m)

\* Calendar order of two [year, month, day] values.
Earlier(a, b) ==
    \/ a[1] < b[1]
    \/ a[1] = b[1] /\ a[2] < b[2]
    \/ a[1] = b[1] /\ a[2] = b[2] /\ a[3] < b[3]

Selected == pc \notin {"select"} /\ latest_folder # <<>>

\* C1: in an output that was written there is exactly one row for each
\* input row whose identifier is all decimal digits and whose status is
\* exactly LFL or Non-LFL, with that row's status, and no other row.
C1_AcceptedRowsOnly ==
    Written =>
        /\ dest.rows = Csv(excel_df)
        /\ \A i \in 1..Len(table) :
            Cardinality({k \in 1..Len(excel_df) : excel_df[k].index = i})
                = (IF AcceptedRow(table[i]) THEN 1 ELSE 0)
        /\ \A k \in 1..Len(excel_df) :
            /\ excel_df[k].index \in 1..Len(table)
            /\ excel_df[k].lfl_status = table[excel_df[k].index].lfl_status

\* Witness of C1: an output written from a table that has an accepted row, a
\* row with a non-digit identifier and a row with another status.
C1_Witness ==
    /\ Written
    /\ Len(dest.rows) >= 1
    /\ \E i \in 1..Len(table) :
        table[i].lfl_status = "LFL" /\ IsDigit(table[i].center_id) = "F"
    /\ \E i \in 1..Len(table) :
        table[i].lfl_status \notin {"LFL", "Non-LFL"} /\ IsDigit(table[i].center_id) = "T"

\* C2 as claimed: when the listing has a valid YYYY-MM-DD name, the selected
\* folder is the greatest valid YYYY-MM-DD name of the listing.
C2_GreatestValidDate ==
    (pc # "select" /\ \E i \in 1..Len(entries) : ValidDateName(entries[i])) =>
        /\ ValidDateName(latest_folder)
        /\ \E i \in 1..Len(entries) : entries[i] = latest_folder
        /\ \A i \in 1..Len(entries) :
            ValidDateName(entries[i]) => ~StrLess(latest_folder, entries[i])

\* What does hold of the selection: the selected name is an entry that
\* strptime accepts, and no entry strptime accepts is greater.
SelectedIsGreatestAccepted ==
    Selected =>
        /\ \E i \in 1..Len(entries) : entries[i] = latest_folder
        /\ IsDate(latest_folder)
        /\ \A i \in 1..Len(entries) :
            IsDate(entries[i]) => ~StrLess(latest_folder, entries[i])

\* C3: main returns 0 exactly when process completed, 1 exactly when process
\* raised DataProcessingError, and lets every other exception of process
\* through.
C3_ExitCodes ==
    pc = "exited" =>
        /\ exit = "return 0" <=> (fault = NoFault /\ Written)
        /\ exit = "return 1" <=> fault.type = "DataProcessingError"
        /\ fault.type \in {"ValueError", "IndexError", "OverflowError", "OSError",
                           "BadZipFile"} <=> exit = "uncaught"

\* Witness of C3: the write failed and main let the OSError through.
C3_Witness ==
    /\ pc = "exited"
    /\ fault.type = "OSError"
    /\ exit = "uncaught"

\* C4 as claimed: whenever the located file is no readable spreadsheet (wrong
\* format, corrupted, a required column missing), process raises
\* DataProcessingError with the cause attached and the file's path in the
\* message.
C4_UnreadableIsDataProcessingError ==
    (reads > 0 /\ folderFiles[1].kind \in {"text", "corrupt", "nocolumn"}) =>
        /\ fault.type = "DataProcessingError"
        /\ fault.cause # "none"
        /\ fault.msg = [folder |-> latest_folder, name |-> folderFiles[1].name]

\* C5 as claimed: process does not get past the conversion when an accepted
\* identifier exceeds 32767, and every center_id written is the numeric
\* value of its identifier text, within 0..32767.
C5_NoWraparound ==
    /\ pc \in {"write", "returned"} =>
        \A i \in 1..Len(table) :
            AcceptedRow(table[i]) => ParseInt(table[i].center_id) <= Int16Max
    /\ Written =>
        \A k \in 1..Len(excel_df) :
            /\ excel_df[k].center_id = ParseInt(table[excel_df[k].index].center_id)
            /\ excel_df[k].center_id \in 0..Int16Max

\* C6: the center_id values of a written output never decrease from one row
\* to the next.
C6_Ascending ==
    Written =>
        \A k \in 1..Len(dest.rows) - 1 :
            dest.rows[k].center_id <= dest.rows[k + 1].center_id

\* Witness of C6: two neighbouring output rows that the sort exchanged, whose
\* identifier texts compare the other way round (as "7" and "12" do).
C6_Witness ==
    /\ Written
    /\ \E k \in 1..Len(excel_df) - 1 :
        /\ excel_df[k].center_id < excel_df[k + 1].center_id
        /\ excel_df[k].index > excel_df[k + 1].index
        /\ StrLess(table[excel_df[k + 1].index].center_id,
                   table[excel_df[k].index].center_id)

\* C7: every row of a written output carries the selected folder's name,
\* character for character, and that name is an entry of the source folder.
C7_SameDate ==
    Written =>
        /\ \E i \in 1..Len(entries) : entries[i] = latest_folder
        /\ \A k \in 1..Len(dest.rows) : dest.rows[k].Date = latest_folder

\* Witness of C7: two rows written under a selected name that formatting the
\* date again would change.
C7_Witness ==
    /\ Written
    /\ Len(dest.rows) >= 2
    /\ latest_folder = DUnpadded

\* C8 as claimed: every name the selector accepts is in the exact
\* zero-padded form, and no accepted name is a later date than the selected
\* one.
C8_ExactFormOnly ==
    Selected =>
        /\ \A i \in 1..Len(entries) : IsDate(entries[i]) => ExactForm(entries[i])
        /\ \A i \in 1..Len(entries) :
            IsDate(entries[i]) =>
                ~Earlier(Strptime(latest_folder), Strptime(entries[i]))

\* C9 as claimed: output rows with the same center_id are in the order of
\* their input rows.
C9_StableSort ==
    Written =>
        \A k, l \in 1..Len(excel_df) :
            (k < l /\ excel_df[k].center_id = excel_df[l].center_id)
                => excel_df[k].index < excel_df[l].index

\* C10: when no entry is a date, or the dated folder is empty, process never
\* reaches the spreadsheet read or the write, the destination is left as it
\* was, and the run ends in an exception that main does not catch.
C10_StructuralFailureStopsEarly ==
    ((\A i \in 1..Len(entries) : ~IsDate(entries[i])) \/ folderFiles = <<>>) =>
        /\ pc \in {"select", "locate", "raised", "exited"}
        /\ reads = 0
        /\ excel_df = <<>>
        /\ ~Written
        /\ pc = "exited" => (fault.type \in {"ValueError", "IndexError"} /\ exit = "uncaught")

\* Witness of C10: the dated folder was empty, the run ended in IndexError
\* and the destination that existed before is still the old one.
C10_Witness ==
    /\ pc = "exited"
    /\ latest_folder # <<>>
    /\ folderFiles = <<>>
    /\ fault.type = "IndexError"
    /\ dest.state = "old"

====
